---- MODULE Spec2Model ----
(***************************************************************************)
(* A model of tvdbpy/tvdb.py: the TvDB client, the entities it builds      *)
(* (SearchResult, Series, Episode) and their lazy cross references.        *)
(*                                                                         *)
(* Objects live in three heaps (sequences); an object's identity is its    *)
(* index.  Python's None is modelled as the string "None" for strings, as  *)
(* the reference 0 for object references and as the empty option <<>> for  *)
(* the _seasons dictionary (<<d>> is the dictionary d, possibly empty).    *)
(* The remote service is a nondeterministic choice of response document.   *)
(***************************************************************************)
EXTENDS Integers, Sequences, FiniteSets, TLC

VARIABLES
    api_key,    \* TvDB._api_key, set by TvDB.__init__
    results,    \* heap of SearchResult objects
    series,     \* heap of Series objects
    episodes,   \* heap of Episode objects
    last,       \* what the caller observed of the last operation
    img         \* entities and last access of the derived URL properties

vars == <<api_key, results, series, episodes, last, img>>

----------------------------------------------------------------------------
(* Bounds of the model *)

\* most entity objects alive at once, over the three heaps
MaxObjects == 2
\* most elements of one tag in a response document
MaxElems == 1
\* the same two bounds for the runs that only load series (SpecLoad)
MaxLoadObjects == 3
MaxLoadElems == 2

\* values of <id> / <seriesid> the service uses
SeriesIds == {1, 2}
\* values of <id> of an episode
EpisodeIds == {7}
\* values of <SeasonNumber> and <EpisodeNumber>
Seasons == {1, 2}
Numbers == {1}

None == "None"
NoRef == 0
ApiKeys == {None, "KEY"}
NoError == "none"

\* sequences over S of length at most n
RECURSIVE SeqUpTo(_, _)
SeqUpTo(S, n) ==
    IF n = 0 THEN {<<>>}
    ELSE LET shorter == SeqUpTo(S, n - 1)
         IN shorter \cup {Append(q, x) : q \in {p \in shorter : Len(p) = n - 1}, x \in S}

----------------------------------------------------------------------------
(* The remote service: XML elements and response documents *)

SeriesElems == [id : SeriesIds]
EpisodeElems == [seriesid : SeriesIds, season : Seasons, number : Numbers]

\* the elements a caller builds an entity from by hand: one of each kind
CallerSeriesElems == {e \in SeriesElems : e.id = 1}
CallerEpisodeElems ==
    {e \in EpisodeElems : e.seriesid = 1 /\ e.season = 1 /\ e.number = 1}

ErrorResponse == [ok |-> FALSE, series |-> <<>>, episodes |-> <<>>]

\* the bounds on a document's elements that the specifications use
ElemBounds == {MaxElems, MaxLoadElems}

\* GetSeries.php: any number of <Series>
SearchDocuments ==
    [maxElems \in ElemBounds |->
        {ErrorResponse} \cup
        [ok : {TRUE}, series : SeqUpTo(SeriesElems, maxElems), episodes : {<<>>}]]

SearchResponses(maxElems) == SearchDocuments[maxElems]

\* <key>/series/<id>/en.xml: the <Series> asked for, or none
SeriesResponses(series_id) ==
    {ErrorResponse} \cup
    [ok : {TRUE}, series : {<<>>, <<[id |-> series_id]>>}, episodes : {<<>>}]

\* <key>/series/<id>/all/en.zip: the <Series> asked for, or none, and any
\* number of <Episode> of that series
FullDocuments ==
    [maxElems \in ElemBounds |-> [series_id \in SeriesIds |->
        {ErrorResponse} \cup
        [ok : {TRUE}, series : {<<>>, <<[id |-> series_id]>>},
         episodes : SeqUpTo({e \in EpisodeElems : e.seriesid = series_id}, maxElems)]]]

FullResponses(series_id, maxElems) == FullDocuments[maxElems][series_id]

\* <key>/episodes/<id>/en.xml: an <Episode> of any series, or none
EpisodeResponses ==
    {ErrorResponse} \cup
    [ok : {TRUE}, series : {<<>>}, episodes : SeqUpTo(EpisodeElems, 1)]

\* <key>/series/<id>/default/<season>/<number>/en.xml: the <Episode> asked
\* for, or none
DefaultResponses(series_id, season, number) ==
    {ErrorResponse} \cup
    [ok : {TRUE}, series : {<<>>},
     episodes : {<<>>, <<[seriesid |-> series_id, season |-> season, number |-> number]>>}]

\* request paths
Path(endpoint, id, season, number) ==
    [endpoint |-> endpoint, key |-> api_key, id |-> id,
     season |-> season, number |-> number]

SearchPath == [endpoint |-> "GetSeries.php", key |-> "", id |-> 0,
               season |-> 0, number |-> 0]

\* a request path embeds the API key unless it is the search endpoint
EmbedsKey(path) == path.endpoint # "GetSeries.php"

----------------------------------------------------------------------------
(* Outcomes of a call: the error raised (or none), the value returned, the *)
(* HTTP requests issued, the client methods entered, and the heaps after.  *)

NoneValue == [t |-> "None", ref |-> NoRef, d |-> <<>>]
SeriesValue(i) == [t |-> "Series", ref |-> i, d |-> <<>>]
EpisodeValue(i) == [t |-> "Episode", ref |-> i, d |-> <<>>]
ListValue(refs) == [t |-> "list", ref |-> NoRef, d |-> refs]
DictValue(owner, d) == [t |-> "dict", ref |-> owner, d |-> d]
RefValue(t, i) == IF i = NoRef THEN NoneValue ELSE [t |-> t, ref |-> i, d |-> <<>>]

Outcome(raised, value, reqs, calls, R, S, E) ==
    [raised |-> raised, value |-> value, reqs |-> reqs, calls |-> calls,
     results |-> R, series |-> S, episodes |-> E]

\* an exception leaves the heaps as they were before the call
Raise(err, reqs, calls) == Outcome(err, NoneValue, reqs, calls, results, series, episodes)

Call(method, id, flag) == [method |-> method, id |-> id, flag |-> flag]

----------------------------------------------------------------------------
(* tvdbpy.helpers: BaseTvDB and api_key_required *)

\* BaseTvDB._get_xml_data / _get_compressed_data: one GET; a transport
\* failure, a non-success status or a malformed body raises APIResponseError
Fetch(path, resp) ==
    [raised |-> IF resp.ok THEN NoError ELSE "APIResponseError",
     data |-> resp, reqs |-> <<path>>]

\* BaseTvDB._parse_entry and _parse_multiple_entries build each entity with
\* client=self: an entity the client builds holds the client
InjectedClient == TRUE

\* the decorator of every key-gated client method
api_key_required(call, body) ==
    IF api_key = None
    THEN Raise("APIKeyRequiredError", <<>>, <<call>>)
    ELSE body

----------------------------------------------------------------------------
(* Entity construction *)

\* BaseSeries.__init__ as inherited by SearchResult
NewSearchResult(elem, client) == [id |-> elem.id, _client |-> client]

\* the attributes Series.__init__ and its base classes assign
SeriesAttributes ==
    {"_client", "id", "imdb_id", "name", "overview", "language", "_first_aired",
     "network", "_banner", "runtime", "status", "_poster", "actors", "genre",
     "_seasons"}

\* Series.__init__
NewSeries(elem, client) ==
    [id |-> elem.id, _client |-> client, _seasons |-> <<>>]

\* Episode.__init__
NewEpisode(elem, ser, client) ==
    [series_id |-> elem.seriesid, season |-> elem.season, number |-> elem.number,
     _series |-> ser, _client |-> client]

\* self._seasons[season][number] = e on a defaultdict(dict)
DictSet(d, season, number, e) ==
    LET inner == IF season \in DOMAIN d THEN d[season] ELSE <<>>
    IN (season :> ((number :> e) @@ inner)) @@ d

\* self._seasons.get(season, {}).get(number)
DictGet(d, season, number) ==
    IF season \in DOMAIN d /\ number \in DOMAIN d[season]
    THEN d[season][number] ELSE NoRef

\* the episode objects a dictionary holds
DictRefs(d) == UNION {{d[s][n] : n \in DOMAIN d[s]} : s \in DOMAIN d}

\* mutant: the episode is stored under [number][season]
StoreOne_swapped(self, e, acc) ==
    [episodes |-> [acc.episodes EXCEPT ![e]._series = self],
     d |-> DictSet(acc.d, acc.episodes[e].number, acc.episodes[e].season, e)]

\* mutant: the episode's back-reference is not set
StoreOne_unbound(self, e, acc) ==
    [episodes |-> acc.episodes,
     d |-> DictSet(acc.d, acc.episodes[e].season, acc.episodes[e].number, e)]

\* the loop of Series._load_episodes over the parsed episodes
StoreOne(self, e, acc) ==
    [episodes |-> [acc.episodes EXCEPT ![e]._series = self],
     d |-> DictSet(acc.d, acc.episodes[e].season, acc.episodes[e].number, e)]

RECURSIVE StoreEpisodes(_, _, _)
StoreEpisodes(self, refs, acc) ==
    IF refs = <<>> THEN acc
    ELSE StoreEpisodes(self, Tail(refs), StoreOne(self, Head(refs), acc))

\* TvDB._get_series_full_data
TvDB_get_series_full_data(series_id, resp) ==
    Fetch(Path("all", series_id, 0, 0), resp)

\* BaseTvDB._parse_multiple_entries(data, Episode, './Episode') followed by
\* the rest of Series._load_episodes, on the heaps S and E
ParseAndStore(S, E, self, data, reqs, calls) ==
    LET n == Len(data.episodes)
        E1 == E \o [k \in 1..n |-> NewEpisode(data.episodes[k], NoRef, InjectedClient)]
        refs == [k \in 1..n |-> Len(E) + k]
        st == StoreEpisodes(self, refs, [episodes |-> E1, d |-> <<>>])
    IN Outcome(NoError, NoneValue, reqs, calls, results,
               [S EXCEPT ![self]._seasons = <<st.d>>], st.episodes)

\* Series._load_episodes(data): data is <<>> for None, <<doc>> otherwise
Series_load_episodes(S, E, self, data, resp, reqs, calls) ==
    IF ~S[self]._client
    THEN Raise("AttributeError", reqs, calls)
    ELSE IF data = <<>>
    THEN LET f == TvDB_get_series_full_data(S[self].id, resp)
         IN IF f.raised # NoError
            THEN Raise(f.raised, reqs \o f.reqs, calls)
            ELSE ParseAndStore(S, E, self, f.data, reqs \o f.reqs, calls)
    ELSE ParseAndStore(S, E, self, data[1], reqs, calls)

----------------------------------------------------------------------------
(* The TvDB client *)

\* TvDB._parse_full_series, with BaseTvDB._parse_entry(data, Series, './Series')
TvDB_parse_full_series(data, reqs, calls) ==
    IF data.series = <<>>
    THEN Outcome(NoError, NoneValue, reqs, calls, results, series, episodes)
    ELSE LET S1 == Append(series, NewSeries(data.series[1], InjectedClient))
             self == Len(S1)
             o == Series_load_episodes(S1, episodes, self, <<data>>, data, reqs, calls)
         IN [o EXCEPT !.value = SeriesValue(self)]

\* TvDB.search: no key check
TvDB_search(resp) ==
    LET f == Fetch(SearchPath, resp)
        calls == <<Call("search", 0, FALSE)>>
        n == Len(f.data.series)
    IN IF f.raised # NoError
       THEN Raise(f.raised, f.reqs, calls)
       ELSE Outcome(NoError, ListValue([k \in 1..n |-> Len(results) + k]), f.reqs, calls,
                    results \o [k \in 1..n |-> NewSearchResult(f.data.series[k], InjectedClient)],
                    series, episodes)

\* the body of TvDB.get_series_by_id
get_series_by_id_body(series_id, full_record, resp) ==
    LET calls == <<Call("get_series_by_id", series_id, full_record)>>
    IN IF full_record
       THEN LET f == TvDB_get_series_full_data(series_id, resp)
            IN IF f.raised # NoError
               THEN Raise(f.raised, f.reqs, calls)
               ELSE TvDB_parse_full_series(f.data, f.reqs, calls)
       ELSE LET f == Fetch(Path("series", series_id, 0, 0), resp)
            IN IF f.raised # NoError
               THEN Raise(f.raised, f.reqs, calls)
               ELSE IF f.data.series = <<>>
               THEN Outcome(NoError, NoneValue, f.reqs, calls, results, series, episodes)
               ELSE Outcome(NoError, SeriesValue(Len(series) + 1), f.reqs, calls, results,
                            Append(series, NewSeries(f.data.series[1], InjectedClient)), episodes)

\* mutant: get_series_by_id without its decorator
TvDB_get_series_by_id_ungated(series_id, full_record, resp) ==
    get_series_by_id_body(series_id, full_record, resp)

\* TvDB.get_series_by_id under @api_key_required
TvDB_get_series_by_id(series_id, full_record, resp) ==
    api_key_required(Call("get_series_by_id", series_id, full_record),
                     get_series_by_id_body(series_id, full_record, resp))

\* an Episode parsed from the first <Episode> of a fetched document, or None
ParseEpisode(f, calls) ==
    IF f.raised # NoError
    THEN Raise(f.raised, f.reqs, calls)
    ELSE IF f.data.episodes = <<>>
    THEN Outcome(NoError, NoneValue, f.reqs, calls, results, series, episodes)
    ELSE Outcome(NoError, EpisodeValue(Len(episodes) + 1), f.reqs, calls, results, series,
                 Append(episodes, NewEpisode(f.data.episodes[1], NoRef, InjectedClient)))

\* TvDB.get_episode_by_id under @api_key_required
TvDB_get_episode_by_id(episode_id, resp) ==
    api_key_required(Call("get_episode_by_id", episode_id, FALSE),
                     ParseEpisode(Fetch(Path("episodes", episode_id, 0, 0), resp),
                                  <<Call("get_episode_by_id", episode_id, FALSE)>>))

\* mutant: get_episode without its decorator
TvDB_get_episode_ungated(series_id, season, number, resp) ==
    ParseEpisode(Fetch(Path("default", series_id, season, number), resp),
                 <<Call("get_episode", series_id, FALSE)>>)

\* TvDB.get_episode under @api_key_required
TvDB_get_episode(series_id, season, number, resp) ==
    api_key_required(Call("get_episode", series_id, FALSE),
                     ParseEpisode(Fetch(Path("default", series_id, season, number), resp),
                                  <<Call("get_episode", series_id, FALSE)>>))

----------------------------------------------------------------------------
(* Entity methods *)

\* mutant: full_record is dropped, the default is passed on
SearchResult_get_series_default(self, full_record, resp) ==
    IF ~results[self]._client
    THEN Raise("APIClientNotAvailableError", <<>>, <<>>)
    ELSE TvDB_get_series_by_id(results[self].id, FALSE, resp)

\* SearchResult.get_series
SearchResult_get_series(self, full_record, resp) ==
    IF ~results[self]._client
    THEN Raise("APIClientNotAvailableError", <<>>, <<>>)
    ELSE TvDB_get_series_by_id(results[self].id, full_record, resp)

\* mutant: the episodes are loaded on every access
Series_seasons_reload(self, resp) ==
    LET o == Series_load_episodes(series, episodes, self, <<>>, resp, <<>>, <<>>)
    IN IF o.raised # NoError THEN o
       ELSE [o EXCEPT !.value = DictValue(self, o.series[self]._seasons[1])]

\* Series.seasons
Series_seasons(self, resp) ==
    IF series[self]._seasons = <<>>
    THEN LET o == Series_load_episodes(series, episodes, self, <<>>, resp, <<>>, <<>>)
         IN IF o.raised # NoError THEN o
            ELSE [o EXCEPT !.value = DictValue(self, o.series[self]._seasons[1])]
    ELSE Outcome(NoError, DictValue(self, series[self]._seasons[1]), <<>>, <<>>,
                 results, series, episodes)

\* Series.get_episode: reads self._episodes, an attribute no code assigns
Series_get_episode(self, season, number, resp) ==
    IF "_episodes" \notin SeriesAttributes
    THEN Raise("AttributeError", <<>>, <<>>)
    ELSE IF series[self]._episodes
    THEN Outcome(NoError, RefValue("Episode", DictGet(series[self]._seasons[1], season, number)),
                 <<>>, <<>>, results, series, episodes)
    ELSE IF ~series[self]._client
    THEN Raise("AttributeError", <<>>, <<>>)
    ELSE TvDB_get_episode(series[self].id, season, number, resp)

\* mutant: the series is fetched on every access
Episode_series_refetch(self, resp) ==
    IF ~episodes[self]._client
    THEN Raise("AttributeError", <<>>, <<>>)
    ELSE LET o == TvDB_get_series_by_id(episodes[self].series_id, FALSE, resp)
         IN IF o.raised # NoError THEN o
            ELSE [o EXCEPT !.episodes[self]._series = o.value.ref]

\* Episode.series
Episode_series(self, resp) ==
    IF episodes[self]._series = NoRef
    THEN IF ~episodes[self]._client
         THEN Raise("AttributeError", <<>>, <<>>)
         ELSE LET o == TvDB_get_series_by_id(episodes[self].series_id, FALSE, resp)
              IN IF o.raised # NoError THEN o
                 ELSE [o EXCEPT !.episodes[self]._series = o.value.ref]
    ELSE Outcome(NoError, SeriesValue(episodes[self]._series), <<>>, <<>>,
                 results, series, episodes)

----------------------------------------------------------------------------
(* Derived URL properties *)

\* a string holding a URL reference, split into scheme, host and the path's
\* segments ("/banners/" is <<"", "banners", "">>); none is Python's None
Str(scheme, netloc, path) == [none |-> FALSE, scheme |-> scheme, netloc |-> netloc, path |-> path]
NoneUrl == [none |-> TRUE, scheme |-> "", netloc |-> "", path |-> <<>>]
EmptyStr == Str("", "", <<"">>)

\* what an element's text can be: absent, empty, relative paths, a path from
\* the root, a URL of another host (no dot segments, params, query, fragment)
RawPaths ==
    {NoneUrl, EmptyStr,
     Str("", "", <<"graphical", "show.jpg">>), Str("", "", <<"show.jpg">>),
     Str("", "", <<"", "show.jpg">>), Str("ftp", "example.org", <<"", "show.jpg">>)}

\* BaseTvDB._base_image_url: "http://thetvdb.com/banners/"
base_image_url == Str("http", "thetvdb.com", <<"", "banners", "">>)

\* Python's truth value of a string or None
Falsy(u) == u.none \/ u = EmptyStr

\* urlparse.urljoin(base, url) of Python 2
urljoin(base, url) ==
    IF Falsy(base) THEN url
    ELSE IF Falsy(url) THEN base
    ELSE IF url.scheme # "" /\ url.scheme # base.scheme THEN url
    ELSE IF url.netloc # "" THEN Str(base.scheme, url.netloc, url.path)
    ELSE IF Len(url.path) > 1 /\ url.path[1] = ""
    THEN Str(base.scheme, base.netloc, url.path)
    ELSE Str(base.scheme, base.netloc,
             SubSeq(base.path, 1, Len(base.path) - 1) \o url.path)

\* BaseSeries.banner
BaseSeries_banner(self) == urljoin(base_image_url, self._banner)

\* Series.poster
Series_poster(self) == urljoin(base_image_url, self._poster)

\* Episode.image
Episode_image(self) == urljoin(base_image_url, self._image)

\* img while no URL property is under study
NoImg == [prop |-> "none"]

----------------------------------------------------------------------------
(* The caller: one action per public operation *)

\* what the caller sees of an operation: op on object self (0: the client),
\* whether self had a client, the cache field before the call, the arguments,
\* and the <Episode> elements of the document the operation fetched
Observed(op, self, bound, before, flag, season, number, o, resp) ==
    [op |-> op, self |-> self, bound |-> bound, before |-> before, flag |-> flag,
     season |-> season, number |-> number, raised |-> o.raised, value |-> o.value,
     reqs |-> o.reqs, calls |-> o.calls,
     doc |-> IF o.reqs = <<>> THEN <<>> ELSE resp.episodes]

NoOutcome == Outcome(NoError, NoneValue, <<>>, <<>>, <<>>, <<>>, <<>>)

\* the heaps stay within the model's capacity
Fits(o, maxObjects) == Len(o.results) + Len(o.series) + Len(o.episodes) <= maxObjects

\* the _seasons field as a value
SeasonsValue(self) ==
    IF series[self]._seasons = <<>> THEN NoneValue
    ELSE DictValue(self, series[self]._seasons[1])

Init ==
    /\ api_key \in ApiKeys
    /\ results = <<>>
    /\ series = <<>>
    /\ episodes = <<>>
    /\ last = Observed("init", 0, TRUE, NoneValue, FALSE, 0, 0, NoOutcome, ErrorResponse)
    /\ img = NoImg

\* client.search(title)
SearchWithin(maxObjects, maxElems) ==
    \E resp \in SearchResponses(maxElems) :
    \E o \in {TvDB_search(resp)} :
        /\ Fits(o, maxObjects)
        /\ results' = o.results
        /\ last' = Observed("search", 0, TRUE, NoneValue, FALSE, 0, 0, o, resp)
        /\ UNCHANGED <<api_key, series, episodes, img>>

\* client.get_series_by_id(series_id, full_record)
GetSeriesByIdWithin(maxObjects, maxElems) ==
    \E series_id \in SeriesIds, full_record \in BOOLEAN :
    \E resp \in IF full_record THEN FullResponses(series_id, maxElems)
                ELSE SeriesResponses(series_id) :
    \E o \in {TvDB_get_series_by_id(series_id, full_record, resp)} :
        /\ Fits(o, maxObjects)
        /\ series' = o.series
        /\ episodes' = o.episodes
        /\ last' = Observed("get_series_by_id", 0, TRUE, NoneValue, full_record, 0, 0, o, resp)
        /\ UNCHANGED <<api_key, results, img>>

\* client.get_episode_by_id(episode_id)
GetEpisodeByIdWithin(maxObjects) ==
    \E episode_id \in EpisodeIds, resp \in EpisodeResponses :
    \E o \in {TvDB_get_episode_by_id(episode_id, resp)} :
        /\ Fits(o, maxObjects)
        /\ episodes' = o.episodes
        /\ last' = Observed("get_episode_by_id", 0, TRUE, NoneValue, FALSE, 0, 0, o, resp)
        /\ UNCHANGED <<api_key, results, series, img>>

\* client.get_episode(series_id, season, number)
GetEpisodeWithin(maxObjects) ==
    \E series_id \in SeriesIds, season \in Seasons, number \in Numbers :
    \E resp \in DefaultResponses(series_id, season, number) :
    \E o \in {TvDB_get_episode(series_id, season, number, resp)} :
        /\ Fits(o, maxObjects)
        /\ episodes' = o.episodes
        /\ last' = Observed("get_episode", 0, TRUE, NoneValue, FALSE, season, number, o, resp)
        /\ UNCHANGED <<api_key, results, series, img>>

\* SearchResult(xml_data) built by the caller, with the default client=None
ConstructSearchResultWithin(maxObjects) ==
    \E elem \in CallerSeriesElems :
        /\ Len(results) + Len(series) + Len(episodes) < maxObjects
        /\ results' = Append(results, NewSearchResult(elem, FALSE))
        /\ last' = Observed("SearchResult", 0, FALSE, NoneValue, FALSE, 0, 0, NoOutcome, ErrorResponse)
        /\ UNCHANGED <<api_key, series, episodes, img>>

\* Series(xml_data) built by the caller, with the default client=None
ConstructSeriesWithin(maxObjects) ==
    \E elem \in CallerSeriesElems :
        /\ Len(results) + Len(series) + Len(episodes) < maxObjects
        /\ series' = Append(series, NewSeries(elem, FALSE))
        /\ last' = Observed("Series", 0, FALSE, NoneValue, FALSE, 0, 0, NoOutcome, ErrorResponse)
        /\ UNCHANGED <<api_key, results, episodes, img>>

\* Episode(xml_data) built by the caller, with the defaults series=None and
\* client=None
ConstructEpisodeWithin(maxObjects) ==
    \E elem \in CallerEpisodeElems :
        /\ Len(results) + Len(series) + Len(episodes) < maxObjects
        /\ episodes' = Append(episodes, NewEpisode(elem, NoRef, FALSE))
        /\ last' = Observed("Episode", 0, FALSE, NoneValue, FALSE, 0, 0, NoOutcome, ErrorResponse)
        /\ UNCHANGED <<api_key, results, series, img>>

\* result.get_series(full_record)
SearchResultGetSeriesWithin(maxObjects, maxElems) ==
    \E self \in 1..Len(results), full_record \in BOOLEAN :
    \E resp \in IF full_record THEN FullResponses(results[self].id, maxElems)
                ELSE SeriesResponses(results[self].id) :
    \E o \in {SearchResult_get_series(self, full_record, resp)} :
        /\ Fits(o, maxObjects)
        /\ series' = o.series
        /\ episodes' = o.episodes
        /\ last' = Observed("SearchResult.get_series", self, results[self]._client,
                            NoneValue, full_record, 0, 0, o, resp)
        /\ UNCHANGED <<api_key, results, img>>

\* series.seasons
SeriesSeasonsWithin(maxObjects, maxElems) ==
    \E self \in 1..Len(series) :
    \E resp \in FullResponses(series[self].id, maxElems) :
    \E o \in {Series_seasons(self, resp)} :
        /\ Fits(o, maxObjects)
        /\ series' = o.series
        /\ episodes' = o.episodes
        /\ last' = Observed("Series.seasons", self, series[self]._client,
                            SeasonsValue(self), FALSE, 0, 0, o, resp)
        /\ UNCHANGED <<api_key, results, img>>

\* series.get_episode(season, number)
SeriesGetEpisodeWithin(maxObjects) ==
    \E self \in 1..Len(series), season \in Seasons, number \in Numbers :
    \E resp \in DefaultResponses(series[self].id, season, number) :
    \E o \in {Series_get_episode(self, season, number, resp)} :
        /\ Fits(o, maxObjects)
        /\ episodes' = o.episodes
        /\ last' = Observed("Series.get_episode", self, series[self]._client,
                            SeasonsValue(self), FALSE, season, number, o, resp)
        /\ UNCHANGED <<api_key, results, series, img>>

\* episode.series
EpisodeSeriesWithin(maxObjects) ==
    \E self \in 1..Len(episodes) :
    \E resp \in SeriesResponses(episodes[self].series_id) :
    \E o \in {Episode_series(self, resp)} :
        /\ Fits(o, maxObjects)
        /\ series' = o.series
        /\ episodes' = o.episodes
        /\ last' = Observed("Episode.series", self, episodes[self]._client,
                            RefValue("Series", episodes[self]._series), FALSE, 0, 0, o, resp)
        /\ UNCHANGED <<api_key, results, img>>

Search == SearchWithin(MaxObjects, MaxElems)
GetSeriesById == GetSeriesByIdWithin(MaxObjects, MaxElems)
GetEpisodeById == GetEpisodeByIdWithin(MaxObjects)
GetEpisode == GetEpisodeWithin(MaxObjects)
ConstructSearchResult == ConstructSearchResultWithin(MaxObjects)
ConstructSeries == ConstructSeriesWithin(MaxObjects)
ConstructEpisode == ConstructEpisodeWithin(MaxObjects)
SearchResultGetSeries == SearchResultGetSeriesWithin(MaxObjects, MaxElems)
SeriesSeasons == SeriesSeasonsWithin(MaxObjects, MaxElems)
SeriesGetEpisode == SeriesGetEpisodeWithin(MaxObjects)
EpisodeSeries == EpisodeSeriesWithin(MaxObjects)

Next ==
    \/ Search
    \/ GetSeriesById
    \/ GetEpisodeById
    \/ GetEpisode
    \/ ConstructSearchResult
    \/ ConstructSeries
    \/ ConstructEpisode
    \/ SearchResultGetSeries
    \/ SeriesSeasons
    \/ SeriesGetEpisode
    \/ EpisodeSeries

Spec == Init /\ [][Next]_vars

----------------------------------------------------------------------------
(* Loading series only, with room for a series and several episodes *)

LoadGetSeriesById == GetSeriesByIdWithin(MaxLoadObjects, MaxLoadElems)
LoadSeriesSeasons == SeriesSeasonsWithin(MaxLoadObjects, MaxLoadElems)
LoadEpisodeSeries == EpisodeSeriesWithin(MaxLoadObjects)

NextLoad ==
    \/ LoadGetSeriesById
    \/ LoadSeriesSeasons
    \/ LoadEpisodeSeries

SpecLoad == Init /\ [][NextLoad]_vars

----------------------------------------------------------------------------
(* The derived URL properties, on one entity of each class *)

InitImg ==
    /\ api_key \in ApiKeys
    /\ results = <<>>
    /\ series = <<>>
    /\ episodes = <<>>
    /\ last = Observed("init", 0, TRUE, NoneValue, FALSE, 0, 0, NoOutcome, ErrorResponse)
    /\ img \in [result : [_banner : RawPaths],
                series : [_banner : RawPaths, _poster : RawPaths],
                episode : [_image : RawPaths],
                prop : {"init"}, raw : {NoneUrl}, value : {NoneUrl}]

Read(prop, raw, value) ==
    /\ img' = [img EXCEPT !.prop = prop, !.raw = raw, !.value = value]
    /\ UNCHANGED <<api_key, results, series, episodes, last>>

\* result.banner
ReadSearchResultBanner ==
    Read("SearchResult.banner", img.result._banner, BaseSeries_banner(img.result))

\* series.banner
ReadSeriesBanner ==
    Read("Series.banner", img.series._banner, BaseSeries_banner(img.series))

\* series.poster
ReadSeriesPoster ==
    Read("Series.poster", img.series._poster, Series_poster(img.series))

\* episode.image
ReadEpisodeImage ==
    Read("Episode.image", img.episode._image, Episode_image(img.episode))

NextImg ==
    \/ ReadSearchResultBanner
    \/ ReadSeriesBanner
    \/ ReadSeriesPoster
    \/ ReadEpisodeImage

SpecImg == InitImg /\ [][NextImg]_vars

----------------------------------------------------------------------------
(* Properties *)

KeyGated == {"get_series_by_id", "get_episode_by_id", "get_episode"}

\* C1: with no API key, get_series_by_id (with or without full_record),
\* get_episode_by_id and get_episode raise APIKeyRequiredError and issue no
\* HTTP request; search proceeds (its one request is issued) without a key.
C1_KeyRequired ==
    api_key = None =>
        /\ last.op \in KeyGated =>
               last.raised = "APIKeyRequiredError" /\ last.reqs = <<>>
        /\ last.op = "search" =>
               last.raised # "APIKeyRequiredError" /\ Len(last.reqs) = 1

C1_Witness ==
    /\ api_key = None
    /\ last.op = "get_episode"
    /\ last.raised = "APIKeyRequiredError"
    /\ last.reqs = <<>>

\* C2: SearchResult.get_series(full_record) on a result without a client
\* raises APIClientNotAvailableError and issues no request; on a result with
\* a client it makes exactly one client call, get_series_by_id with the
\* result's own id and the same full_record.
C2_GetSeries ==
    last.op = "SearchResult.get_series" =>
        IF ~last.bound
        THEN /\ last.raised = "APIClientNotAvailableError"
             /\ last.reqs = <<>>
             /\ last.calls = <<>>
        ELSE last.calls = <<Call("get_series_by_id", results[last.self].id, last.flag)>>

C2_Witness ==
    /\ last.op = "SearchResult.get_series"
    /\ last.bound
    /\ last.flag
    /\ last.raised = NoError
    /\ last.value.t = "Series"
    /\ series[last.value.ref].id = results[last.self].id

\* C3: Series.get_episode(season, number) on a Series whose mapping is loaded
\* raises nothing, issues no request and returns the Episode stored at
\* (season, number), or None when the season or the number is absent.
C3_LoadedLookup ==
    (last.op = "Series.get_episode" /\ last.before # NoneValue) =>
        /\ last.raised = NoError
        /\ last.reqs = <<>>
        /\ last.value = RefValue("Episode", DictGet(last.before.d, last.season, last.number))

\* the last operation loaded the document last.doc into a Series
Loaded ==
    \/ last.op = "get_series_by_id" /\ last.flag /\ last.value.t = "Series"
    \/ last.op = "Series.seasons" /\ last.reqs # <<>> /\ last.raised = NoError

LoadedDict ==
    series[IF last.op = "get_series_by_id" THEN last.value.ref ELSE last.self]._seasons[1]

\* the (season, number) keys of a mapping
DictKeys(d) == UNION {{<<s, n>> : n \in DOMAIN d[s]} : s \in DOMAIN d}

\* every episode of the mapping is stored under its own season and number
KeysRight(d) ==
    \A s \in DOMAIN d : \A n \in DOMAIN d[s] :
        episodes[d[s][n]].season = s /\ episodes[d[s][n]].number = n

DocKey(k) == <<last.doc[k].season, last.doc[k].number>>

\* the last element of the document with the key of element k
LastWithKey(k) ==
    CHOOSE j \in 1..Len(last.doc) :
        /\ DocKey(j) = DocKey(k)
        /\ \A i \in 1..Len(last.doc) : DocKey(i) = DocKey(k) => i <= j

\* C4 as stated: loading a response with N Episode elements leaves exactly N
\* episodes in the mapping, each under its own (season, number).
C4_Original ==
    Loaded =>
        /\ Cardinality(DictKeys(LoadedDict)) = Len(last.doc)
        /\ KeysRight(LoadedDict)

\* C4 as amended: the mapping holds one episode for each distinct
\* (season, number) among the N elements (N episodes when the pairs are all
\* distinct), each under its own key; of several elements with one pair the
\* last in document order is the one kept.
C4_Amended ==
    Loaded =>
        /\ DictKeys(LoadedDict) = {DocKey(k) : k \in 1..Len(last.doc)}
        /\ KeysRight(LoadedDict)
        /\ \A k \in 1..Len(last.doc) :
               DictGet(LoadedDict, DocKey(k)[1], DocKey(k)[2])
                   = Len(episodes) - Len(last.doc) + LastWithKey(k)

C4_Witness ==
    /\ Loaded
    /\ Len(last.doc) = 2
    /\ DocKey(1) # DocKey(2)
    /\ Cardinality(DictKeys(LoadedDict)) = 2

\* C5: every Episode held in a Series' mapping, loaded eagerly or lazily,
\* has that Series as its back-reference, and Episode.series on it returns
\* that same Series without a request.
C5_BackReference ==
    \A s \in 1..Len(series) :
        series[s]._seasons # <<>> =>
            \A e \in DictRefs(series[s]._seasons[1]) :
                /\ episodes[e]._series = s
                /\ (last.op = "Episode.series" /\ last.self = e) =>
                       /\ last.raised = NoError
                       /\ last.reqs = <<>>
                       /\ last.value = SeriesValue(s)

C5_Witness ==
    /\ last.op = "Episode.series"
    /\ \E s \in 1..Len(series) :
           /\ series[s]._seasons # <<>>
           /\ last.self \in DictRefs(series[s]._seasons[1])
           /\ last.value = SeriesValue(s)

\* C6 as stated: after a seasons access that fetched, the next access on the
\* same Series makes no request.
C6_Original ==
    [][(/\ last.op = "Series.seasons"
        /\ last.reqs # <<>>
        /\ last'.op = "Series.seasons"
        /\ last'.self = last.self) => last'.reqs = <<>>]_vars

C6_Access ==
    /\ (last.op = "Series.seasons" /\ last.before # NoneValue) =>
           /\ last.raised = NoError
           /\ last.reqs = <<>>
           /\ last.value = last.before
    /\ (last.op = "Series.seasons" /\ last.before = NoneValue /\ last.bound) =>
           /\ Len(last.reqs) = 1
           /\ last.raised = NoError =>
                  /\ series[last.self]._seasons # <<>>
                  /\ last.value = SeasonsValue(last.self)
           /\ last.raised # NoError => series[last.self]._seasons = <<>>
    /\ (last.op = "Series.seasons" /\ last.reqs # <<>>) =>
           last.before = NoneValue /\ last.bound
    /\ (/\ last.op \in {"get_series_by_id", "SearchResult.get_series"}
        /\ last.flag
        /\ last.value.t = "Series") => series[last.value.ref]._seasons # <<>>

C6_Stable ==
    \A s \in 1..Len(series) :
        series[s]._seasons # <<>> => series'[s]._seasons = series[s]._seasons

\* C6 as amended: a seasons access on a Series with a client that is not
\* loaded performs one fetch, and builds the mapping if and only if the fetch
\* succeeds (after a failed fetch the Series is still not loaded); only a
\* Series that is not loaded fetches; once the mapping is built, by a seasons
\* access or by get_series_by_id(full_record=True), no operation replaces it
\* and every seasons access returns it with no request.
C6_Amended == []C6_Access /\ [][C6_Stable]_vars

C6_Witness ==
    /\ last.op = "Series.seasons"
    /\ last.before # NoneValue
    /\ last.value = last.before
    /\ last.reqs = <<>>

\* C7 as stated: after a series access that made a request, the next access
\* on the same Episode makes no request.
C7_Original ==
    [][(/\ last.op = "Episode.series"
        /\ last.reqs # <<>>
        /\ last'.op = "Episode.series"
        /\ last'.self = last.self) => last'.reqs = <<>>]_vars

C7_Access ==
    /\ (last.op = "Episode.series" /\ last.before # NoneValue) =>
           /\ last.raised = NoError
           /\ last.reqs = <<>>
           /\ last.value = last.before
    /\ (last.op = "Episode.series" /\ last.before = NoneValue /\ last.bound) =>
           /\ last.calls =
                  <<Call("get_series_by_id", episodes[last.self].series_id, FALSE)>>
           /\ Len(last.reqs) <= 1
           /\ api_key # None => Len(last.reqs) = 1
           /\ episodes[last.self]._series = last.value.ref
    /\ (last.op = "Episode.series" /\ last.reqs # <<>>) =>
           last.before = NoneValue /\ last.bound

C7_Stable ==
    \A e \in 1..Len(episodes) :
        episodes[e]._series # NoRef => episodes'[e]._series = episodes[e]._series

\* C7 as amended: a series access on an Episode with a client and no bound
\* back-reference calls get_series_by_id once, with the episode's series_id
\* (one request when the client has a key), and caches the Series it returns;
\* when the call raises or returns no Series the back-reference stays unbound
\* (and the next access calls again); only an Episode with no bound
\* back-reference requests; once a Series is bound, no operation replaces it
\* and every access returns it with no request.
C7_Amended == []C7_Access /\ [][C7_Stable]_vars

C7_Witness ==
    /\ last.op = "Episode.series"
    /\ last.before = NoneValue
    /\ last.bound
    /\ last.value.t = "Series"
    /\ episodes[last.self]._series = last.value.ref

\* the raw value resolved against the base image URL
Resolved(raw) == urljoin(base_image_url, raw)

\* C8: banner, poster and image are None when the stored raw path is None,
\* and the raw path resolved against the base image URL otherwise.
C8_DerivedUrl ==
    img.prop \notin {"none", "init"} =>
        IF img.raw.none
        THEN img.value = NoneUrl
        ELSE img.value = Resolved(img.raw)

\* C9: a lazy resolution on an entity without a client raises
\* APIClientNotAvailableError: SearchResult.get_series, and Series.seasons,
\* Series.get_episode and Episode.series when nothing is cached.
C9_ClientNotAvailable ==
    (/\ ~last.bound
     /\ \/ last.op = "SearchResult.get_series"
        \/ /\ last.op \in {"Series.seasons", "Series.get_episode", "Episode.series"}
           /\ last.before = NoneValue) =>
        last.raised = "APIClientNotAvailableError"

C10_Keyless ==
    /\ \A k \in 1..Len(last.reqs) :
           EmbedsKey(last.reqs[k]) => last.reqs[k].key # None
    /\ api_key = None =>
           /\ \A s \in 1..Len(series) : ~series[s]._client
           /\ \A e \in 1..Len(episodes) : ~episodes[e]._client

\* C10: no request is issued to a path that embeds the API key while the key
\* is absent: with no key no Series or Episode holds the client, and the key
\* never changes after construction.
C10_NoKeylessRequest == []C10_Keyless /\ [][api_key' = api_key]_vars

C10_Witness ==
    /\ api_key = None
    /\ last.op = "SearchResult.get_series"
    /\ last.bound
    /\ last.raised = "APIKeyRequiredError"
    /\ last.reqs = <<>>
====
